---- MODULE Spec2Model ----
(***************************************************************************)
(* The Monitor of gohome (package gohome, monitor source): subscription    *)
(* bookkeeping, value caches, refresh, value-change fan-out and the expiry *)
(* sweep, as a state machine.  Every critical section of the source is one *)
(* step.  The locked sections of Subscribe and Unsubscribe, which write    *)
(* the map m.groups and the inner maps of the reverse indices, keep the    *)
(* mutex until a separate Unlock step, so that the reads the source makes  *)
(* without the lock can fall inside them; every other section, from Lock   *)
(* or RLock to its unlock, is one atomic step.  The contexts are the       *)
(* caller threads, the bus-consumption goroutine and the expiry-sweep      *)
(* goroutine.  What a step calls on a delegate, publishes on the bus or    *)
(* returns to its caller is in `effects` for that step.                    *)
(***************************************************************************)
EXTENDS Integers, Sequences, FiniteSets, TLC

(* ------------------------------ bounds -------------------------------- *)

\* Subscribe calls that register a group in one run (IDs "1".."MaxSubs").
MaxSubs == 2
\* The clock runs from 0 to MaxTime seconds.
MaxTime == 2
\* The leases (MonitorGroup.Timeout) callers ask for: 1..MaxLease seconds.
MaxLease == 1

\* The contexts that take steps in one run, out of the caller threads, the bus
\* goroutine and the sweep goroutine; the others are not scheduled.
MaxContexts == 2

\* time.Sleep(time.Second * 5) of handleTimeouts.
SweepInterval == 5

(* ------------------------------ domains ------------------------------- *)

Callers == {"c1", "c2"}
BusProc == "bus"
SweepProc == "sweep"
NoProc == "none"
Contexts == Callers \cup {BusProc, SweepProc}

\* The sets of contexts a run may schedule.  Caller threads differ by name
\* only, so "c2" is taken only along with "c1".
Schedules ==
    {S \in SUBSET Contexts : /\ Cardinality(S) = MaxContexts
                             /\ "c2" \in S => "c1" \in S}

ZoneIDs == {"z1"}
SensorIDs == {"s1"}
\* cmd.Level values (compared as whole structs).
Levels == {[Value |-> 50], [Value |-> 75]}
\* SensorAttr values: the dedup test of sensorAttrChanged compares .Value only.
SensorAttrs == {[Name |-> "t", Value |-> "a"], [Name |-> "t", Value |-> "b"],
                [Name |-> "u", Value |-> "a"]}
Leases == 1..MaxLease

Digit == <<"0", "1", "2", "3", "4", "5", "6", "7", "8", "9">>

RECURSIVE Itoa(_)
\* strconv.Itoa on a non-negative int: its decimal digits.
Itoa(n) == IF n < 10 THEN Digit[n + 1] ELSE Itoa(n \div 10) \o Digit[(n % 10) + 1]

\* The monitor IDs a caller may pass: every ID a run can hand out.
MonitorIDs == {Itoa(i) : i \in 1..MaxSubs}

\* The MonitorGroup values a caller may pass to Subscribe (the empty group too).
GroupArgs == [Zones : SUBSET ZoneIDs, Sensors : SUBSET SensorIDs, Timeout : Leases]

\* A Go map as a function; Restrict is the map cut to the keys in S.
Restrict(f, S) == [x \in S |-> f[x]]
EmptyMap == [x \in {} |-> 0]

NoBatch == [MonitorID |-> "", Sensors |-> EmptyMap, Zones |-> EmptyMap]

(* ------------------------------- state -------------------------------- *)

VARIABLES
    groups,          \* Monitor.groups: monitor ID -> MonitorGroup
    nextID,          \* Monitor.nextID
    sensorToGroups,  \* Monitor.sensorToGroups: sensor ID -> inner map (ref, ids)
    zoneToGroups,    \* Monitor.zoneToGroups: zone ID -> inner map (ref, ids)
    sensorValues,    \* Monitor.sensorValues: sensor ID -> SensorAttr
    zoneValues,      \* Monitor.zoneValues: zone ID -> cmd.Level
    mutex,           \* Monitor.mutex: the context holding the write lock, or NoProc
    written,         \* the inner maps of the reverse indices (kind, key, ref) that
                     \* the section holding the write lock writes
    now,             \* time.Now(), in seconds
    caller,          \* each caller thread: its call in progress and its locals
    bus,             \* the goroutine of StartConsuming
    sweep,           \* the goroutine of handleTimeouts
    effects,         \* what the last step called, published and returned
    handedOut,       \* the IDs Subscribe has assigned, in order (n: as a number)
    last,            \* the last value taken off the bus, if its entity was found
                     \* monitored and no Unsubscribe / InvalidateValues section
                     \* ran since; NoValue otherwise
    evictedZones,    \* zones whose last group was unsubscribed, with no level for
                     \* them taken off the bus since
    crashed          \* "no", or the fatal error / panic that ended the process

vars == <<groups, nextID, sensorToGroups, zoneToGroups, sensorValues, zoneValues,
          mutex, written, now, caller, bus, sweep, effects, handedOut, last,
          evictedZones, crashed>>

tables == <<groups, nextID, sensorToGroups, zoneToGroups, sensorValues, zoneValues>>

\* What the model records about the run beside the program's own state.
observed == <<handedOut, last, evictedZones>>

IdleCaller == [pc |-> "idle", op |-> "none", monitorID |-> "", flag |-> FALSE,
               zones |-> {}, sensors |-> {}, changeBatch |-> NoBatch,
               sensorReport |-> {}, zoneReport |-> {}]

NoValue == [kind |-> "none", id |-> "", val |-> [Value |-> 0]]

IdleBus == [pc |-> "idle", kind |-> "none", id |-> "", val |-> [Value |-> 0],
            ref |-> "", start |-> {}, seen |-> {}, groupID |-> "",
            nilGroup |-> FALSE, updated |-> {}, dup |-> FALSE]

IdleSweep == [pc |-> "sleep", now |-> 0, expired |-> {}, cur |-> "", wakeAt |-> 0]

\* A context that is not scheduled in this run.
Off(locals) == [locals EXCEPT !.pc = "off"]

\* NewMonitor with nil value maps: empty tables, nextID 1, the sweep goroutine
\* started and about to read the clock for the first time.
Init ==
    /\ groups = EmptyMap
    /\ nextID = 1
    /\ sensorToGroups = EmptyMap
    /\ zoneToGroups = EmptyMap
    /\ sensorValues = EmptyMap
    /\ zoneValues = EmptyMap
    /\ mutex = NoProc
    /\ written = {}
    /\ now = 0
    /\ \E S \in Schedules :
          /\ caller = [c \in Callers |-> IF c \in S THEN IdleCaller ELSE Off(IdleCaller)]
          /\ bus = IF BusProc \in S THEN IdleBus ELSE Off(IdleBus)
          /\ sweep = IF SweepProc \in S THEN IdleSweep ELSE Off(IdleSweep)
    /\ effects = <<>>
    /\ handedOut = <<>>
    /\ last = NoValue
    /\ evictedZones = {}
    /\ crashed = "no"

Running == crashed = "no"

\* RLock() and Lock() both wait while a writer holds the mutex.
LockFree == mutex = NoProc

\* An Unsubscribe that returns without giving the write lock back.
UnlockForgotten(holder) == holder

\* The holder of the write lock after the m.mutex.Unlock() that ends the
\* locked section of Unsubscribe.
UnsubscribeReleased(holder) == NoProc

(* ------------------------------ effects ------------------------------- *)

Effect(call, op, id, batch, ids, ok) ==
    [call |-> call, op |-> op, id |-> id, batch |-> batch, ids |-> ids, ok |-> ok]

\* delegate.Update(batch) on the delegate of group id.
UpdateCall(id, batch) == Effect("Update", "", id, batch, {}, TRUE)
\* delegate.Expired(id).
ExpiredCall(id) == Effect("Expired", "", id, NoBatch, {}, TRUE)
\* evtBus.Enqueue of a SensorsReport ("sensor") or ZonesReport ("zone").
ReportRequest(kind, ids) == Effect("Enqueue", kind, "", NoBatch, ids, TRUE)
\* The return of a call that returns something (Subscribe, SubscribeRenew,
\* Group): op, the ID it was about or returns, the entities of a Subscribe's
\* group, and whether it reports success (err == nil, ok).  Also the return of
\* a bus handler for an entity that is not monitored (op "valueChanged").
Return(op, id, ids, ok) == Effect("Return", op, id, NoBatch, ids, ok)

(* --------------------- the tables' pure operations -------------------- *)

\* setTimeoutOnGroup: time.Now().Add(group.Timeout).
setTimeoutOnGroup(group) == [group EXCEPT !.timeoutAbsolute = now + group.Timeout]

\* Subscribe's loops over g.Sensors / g.Zones: the inner map of every listed
\* entity gets monitorID; a missing inner map is made first (ref names the map
\* object, by the ID of the Subscribe that made it).
AddToIndex(index, keys, monitorID) ==
    [e \in DOMAIN index \cup keys |->
        IF e \in keys
        THEN IF e \in DOMAIN index
             THEN [index[e] EXCEPT !.ids = @ \cup {monitorID}]
             ELSE [ref |-> monitorID, ids |-> {monitorID}]
        ELSE index[e]]

\* The inner maps of an index that hold monitorID: the ones the section of
\* Subscribe(monitorID) has written, the ones the section of
\* Unsubscribe(monitorID) is about to write.
InnerMaps(kind, index, monitorID) ==
    {<<kind, e, index[e].ref>> : e \in {k \in DOMAIN index : monitorID \in index[k].ids}}

\* The keys Unsubscribe deletes from an index: monitorID was their last group.
Emptied(index, monitorID) == {e \in DOMAIN index : index[e].ids = {monitorID}}

\* An Unsubscribe whose loop over an index deletes nothing.
KeepInIndex(index, monitorID) == index

\* Unsubscribe's loop over an index: monitorID leaves every inner map, and an
\* inner map left empty is deleted.
RemoveFromIndex(index, monitorID) ==
    [e \in DOMAIN index \ Emptied(index, monitorID) |->
        [index[e] EXCEPT !.ids = @ \ {monitorID}]]

\* Unsubscribe's delete(m.sensorValues, ...) / delete(m.zoneValues, ...): the
\* cached value of every key deleted from the index goes too.
EvictValues(values, index, monitorID) ==
    Restrict(values, DOMAIN values \ Emptied(index, monitorID))

\* The map after m[key] = val.
Store(values, key, val) ==
    [x \in DOMAIN values \cup {key} |-> IF x = key THEN val ELSE values[x]]

(* ------------------- the unlocked read of m.groups -------------------- *)

\* The context holding the write lock is inside a section that writes the map
\* m.groups: the section of Subscribe or the section of Unsubscribe.
SectionWritesGroups ==
    \/ mutex \in Callers /\ caller[mutex].pc \in {"sub_unlock", "uns_unlock"}
    \/ mutex = SweepProc

\* The write lock's holder is inside Unsubscribe(id).
HolderDeleting(id) ==
    \/ mutex \in Callers /\ caller[mutex].pc = "uns_unlock" /\ caller[mutex].monitorID = id
    \/ mutex = SweepProc /\ sweep.cur = id

\* Unsubscribe's `_, ok := m.groups[monitorID]`, made without the lock.  Alone it
\* reads the map as it is.  While another context is inside a section writing
\* m.groups it is a data race on a Go map: the key may be seen as before the
\* write, as after it, or missed.
RacyGroupsRead(id) ==
    IF SectionWritesGroups
    THEN {id \in DOMAIN groups, FALSE} \cup (IF HolderDeleting(id) THEN {TRUE} ELSE {})
    ELSE {id \in DOMAIN groups}

(* ----------------------------- Subscribe ------------------------------ *)

\* A Subscribe without its argument test.
NeverRejects(g) == FALSE

\* Subscribe's argument test: no sensors and no zones.
SubscribeRejects(g) == g.Sensors = {} /\ g.Zones = {}

\* A Subscribe that leaves the counter where it was.
NextIDStuck(n) == n

\* m.nextID++
NextIDAfter(n) == n + 1

\* Subscribe(g, refresh) up to its m.mutex.Unlock(): the empty group is refused
\* before anything is touched; otherwise the locked section assigns the ID,
\* stores the group, sets the deadline and fills the reverse indices.
Subscribe(c, g, refresh) ==
    /\ Running
    /\ caller[c].pc = "idle"
    /\ IF SubscribeRejects(g)
       THEN /\ effects' = <<Return("Subscribe", "", g.Zones \cup g.Sensors, FALSE)>>
            /\ UNCHANGED <<tables, mutex, written, caller, handedOut>>
       ELSE /\ nextID <= MaxSubs
            /\ LockFree
            /\ LET monitorID == Itoa(nextID)
                   group == setTimeoutOnGroup(
                               [Zones |-> g.Zones, Sensors |-> g.Sensors,
                                Timeout |-> g.Timeout, timeoutAbsolute |-> 0,
                                id |-> monitorID, renewal |-> "none"])
               IN /\ nextID' = NextIDAfter(nextID)
                  /\ groups' = Store(groups, monitorID, group)
                  /\ sensorToGroups' = AddToIndex(sensorToGroups, g.Sensors, monitorID)
                  /\ zoneToGroups' = AddToIndex(zoneToGroups, g.Zones, monitorID)
                  /\ written' = InnerMaps("sensor", sensorToGroups', monitorID)
                                   \cup InnerMaps("zone", zoneToGroups', monitorID)
                  /\ handedOut' = Append(handedOut, [n |-> nextID, id |-> monitorID])
                  /\ caller' = [caller EXCEPT ![c] =
                        [IdleCaller EXCEPT !.pc = "sub_unlock", !.op = "Subscribe",
                                           !.monitorID = monitorID, !.flag = refresh,
                                           !.zones = g.Zones, !.sensors = g.Sensors]]
            /\ mutex' = c
            /\ effects' = <<>>
            /\ UNCHANGED <<sensorValues, zoneValues>>
    /\ UNCHANGED <<now, bus, sweep, last, evictedZones, crashed>>

\* m.mutex.Unlock() of Subscribe, then either the Refresh or the return.
SubscribeUnlock(c) ==
    /\ Running
    /\ caller[c].pc = "sub_unlock"
    /\ mutex' = NoProc
    /\ written' = {}
    /\ IF caller[c].flag
       THEN /\ caller' = [caller EXCEPT ![c].pc = "ref_read"]
            /\ effects' = <<>>
       ELSE /\ caller' = [caller EXCEPT ![c] = IdleCaller]
            /\ effects' = <<Return("Subscribe", caller[c].monitorID,
                                   caller[c].zones \cup caller[c].sensors, TRUE)>>
    /\ UNCHANGED <<tables, now, bus, sweep, observed, crashed>>

(* ------------------------------ Refresh ------------------------------- *)

\* A Refresh that never answers from the cache.
NoneCached(ids, values, force) == {}

\* Refresh's loops, for one kind: the listed IDs answered from the cache ...
RefreshCached(ids, values, force) == {e \in ids : e \in DOMAIN values /\ ~force}
\* ... and the listed IDs to request.
RefreshReport(ids, values, force) == ids \ RefreshCached(ids, values, force)

\* Refresh's section under RLock, on the locals r of the calling context: the
\* return for an unknown ID, or the batch and the two reports.
RefreshSection(r, monitorID, force) ==
    IF monitorID \notin DOMAIN groups
    THEN IdleCaller
    ELSE LET group == groups[monitorID]
         IN [r EXCEPT
               !.pc = "ref_emit",
               !.changeBatch =
                  [MonitorID |-> monitorID,
                   Sensors |-> Restrict(sensorValues,
                                  RefreshCached(group.Sensors, sensorValues, force)),
                   Zones |-> Restrict(zoneValues,
                                  RefreshCached(group.Zones, zoneValues, force))],
               !.sensorReport = RefreshReport(group.Sensors, sensorValues, force),
               !.zoneReport = RefreshReport(group.Zones, zoneValues, force)]

\* Refresh returns nothing; the Subscribe that ran it then returns the ID.
RefreshReturn(r) ==
    IF r.op = "Subscribe"
    THEN <<Return("Subscribe", r.monitorID, r.zones \cup r.sensors, TRUE)>>
    ELSE <<>>

\* Refresh(monitorID, force) called directly: its section under RLock.
Refresh(c, monitorID, force) ==
    /\ Running
    /\ caller[c].pc = "idle"
    /\ LockFree
    /\ LET r == [IdleCaller EXCEPT !.op = "Refresh", !.monitorID = monitorID,
                                   !.flag = force]
       IN /\ caller' = [caller EXCEPT ![c] = RefreshSection(r, monitorID, force)]
          /\ effects' = <<>>
    /\ UNCHANGED <<tables, mutex, written, now, bus, sweep, observed, crashed>>

\* The Refresh(monitorID, false) that Subscribe(g, true) makes before returning.
SubscribeRefresh(c) ==
    /\ Running
    /\ caller[c].pc = "ref_read"
    /\ LockFree
    /\ caller' = [caller EXCEPT ![c] =
          RefreshSection(caller[c], caller[c].monitorID, FALSE)]
    /\ effects' = IF caller[c].monitorID \in DOMAIN groups THEN <<>>
                  ELSE RefreshReturn(caller[c])
    /\ UNCHANGED <<tables, mutex, written, now, bus, sweep, observed, crashed>>

\* What Refresh does after RUnlock: the delegate's Update when the batch is
\* not empty, then the report requests that are not empty.
RefreshEffects(r) ==
    (IF DOMAIN r.changeBatch.Sensors # {} \/ DOMAIN r.changeBatch.Zones # {}
     THEN <<UpdateCall(r.monitorID, r.changeBatch)>> ELSE <<>>)
    \o (IF r.sensorReport # {}
        THEN <<ReportRequest("sensor", r.sensorReport)>> ELSE <<>>)
    \o (IF r.zoneReport # {}
        THEN <<ReportRequest("zone", r.zoneReport)>> ELSE <<>>)

RefreshEmit(c) ==
    /\ Running
    /\ caller[c].pc = "ref_emit"
    /\ effects' = RefreshEffects(caller[c]) \o RefreshReturn(caller[c])
    /\ caller' = [caller EXCEPT ![c] = IdleCaller]
    /\ UNCHANGED <<tables, mutex, written, now, bus, sweep, observed, crashed>>

(* ---------------------- InvalidateValues, Group ----------------------- *)

\* InvalidateValues' check under RLock: the return, or the group pointer kept
\* for the locked section.
InvalidateValues(c, monitorID) ==
    /\ Running
    /\ caller[c].pc = "idle"
    /\ LockFree
    /\ IF monitorID \in DOMAIN groups
       THEN caller' = [caller EXCEPT ![c] =
                  [IdleCaller EXCEPT !.pc = "inv_lock", !.op = "InvalidateValues",
                                     !.monitorID = monitorID,
                                     !.zones = groups[monitorID].Zones,
                                     !.sensors = groups[monitorID].Sensors]]
       ELSE UNCHANGED caller
    /\ effects' = <<>>
    /\ UNCHANGED <<tables, mutex, written, now, bus, sweep, observed, crashed>>

\* An InvalidateValues that deletes nothing from a cache.
NotInvalidated(values, ids) == values

\* InvalidateValues' loop over one kind: delete(values, id) for every listed ID.
Invalidated(values, ids) == Restrict(values, DOMAIN values \ ids)

\* The section of InvalidateValues from Lock to Unlock, on the group found by
\* the check: it writes the two caches only.
InvalidateSection(c) ==
    /\ Running
    /\ caller[c].pc = "inv_lock"
    /\ LockFree
    /\ sensorValues' = Invalidated(sensorValues, caller[c].sensors)
    /\ zoneValues' = Invalidated(zoneValues, caller[c].zones)
    /\ caller' = [caller EXCEPT ![c] = IdleCaller]
    /\ last' = NoValue
    /\ effects' = <<>>
    /\ UNCHANGED <<groups, nextID, sensorToGroups, zoneToGroups, mutex, written, now,
                   bus, sweep, handedOut, evictedZones, crashed>>

\* Group(monitorID): the lookup under RLock.
Group(c, monitorID) ==
    /\ Running
    /\ caller[c].pc = "idle"
    /\ LockFree
    /\ effects' = <<Return("Group", monitorID, {}, monitorID \in DOMAIN groups)>>
    /\ UNCHANGED <<tables, mutex, written, now, caller, bus, sweep, observed, crashed>>

(* --------------------------- SubscribeRenew --------------------------- *)

\* SubscribeRenew's check under RLock: the error, or on to the locked section
\* with the group pointer.
SubscribeRenew(c, monitorID) ==
    /\ Running
    /\ caller[c].pc = "idle"
    /\ LockFree
    /\ IF monitorID \in DOMAIN groups
       THEN /\ caller' = [caller EXCEPT ![c] =
                  [IdleCaller EXCEPT !.pc = "ren_lock", !.op = "SubscribeRenew",
                                     !.monitorID = monitorID]]
            /\ effects' = <<>>
       ELSE /\ effects' = <<Return("SubscribeRenew", monitorID, {}, FALSE)>>
            /\ UNCHANGED caller
    /\ UNCHANGED <<tables, mutex, written, now, bus, sweep, observed, crashed>>

\* The group a renewal leaves in the table: its deadline reset.  (renewal
\* records whether the deadline it replaced had passed: "late", or "kept".)
Renewed(group) ==
    [setTimeoutOnGroup(group) EXCEPT
        !.renewal = IF group.timeoutAbsolute < now THEN "late" ELSE "kept"]

\* SubscribeRenew's section from Lock to Unlock, and its return:
\* setTimeoutOnGroup on the pointer found by the check.  IDs are never reused,
\* so the pointer is the table's entry while the ID is in the table; after a
\* removal the write goes to the orphaned object and the table is as it was.
RenewSection(c) ==
    /\ Running
    /\ caller[c].pc = "ren_lock"
    /\ LockFree
    /\ groups' = IF caller[c].monitorID \in DOMAIN groups
                 THEN [groups EXCEPT ![caller[c].monitorID] = Renewed(@)]
                 ELSE groups
    /\ caller' = [caller EXCEPT ![c] = IdleCaller]
    /\ effects' = <<Return("SubscribeRenew", caller[c].monitorID, {}, TRUE)>>
    /\ UNCHANGED <<nextID, sensorToGroups, zoneToGroups, sensorValues, zoneValues,
                   mutex, written, now, bus, sweep, observed, crashed>>

(* ---------------------------- Unsubscribe ----------------------------- *)

\* Unsubscribe's first statement: the read of m.groups without the lock.
Unsubscribe(c, monitorID) ==
    /\ Running
    /\ caller[c].pc = "idle"
    /\ \/ /\ \E ok \in RacyGroupsRead(monitorID) :
               IF ok
               THEN /\ caller' = [caller EXCEPT ![c] =
                          [IdleCaller EXCEPT !.pc = "uns_lock", !.op = "Unsubscribe",
                                             !.monitorID = monitorID]]
                    /\ effects' = <<>>
               ELSE /\ effects' = <<>>
                    /\ UNCHANGED caller
          /\ UNCHANGED crashed
       \/ /\ SectionWritesGroups
          /\ crashed' = "concurrent map read and map write"
          /\ effects' = <<>>
          /\ UNCHANGED caller
    /\ UNCHANGED <<tables, mutex, written, now, bus, sweep, observed>>

\* Unsubscribe's locked section on the five tables.
UnsubscribeSection(monitorID) ==
    /\ groups' = Restrict(groups, DOMAIN groups \ {monitorID})
    /\ sensorToGroups' = RemoveFromIndex(sensorToGroups, monitorID)
    /\ sensorValues' = EvictValues(sensorValues, sensorToGroups, monitorID)
    /\ zoneToGroups' = RemoveFromIndex(zoneToGroups, monitorID)
    /\ zoneValues' = EvictValues(zoneValues, zoneToGroups, monitorID)
    /\ written' = InnerMaps("sensor", sensorToGroups, monitorID)
                     \cup InnerMaps("zone", zoneToGroups, monitorID)
    /\ last' = NoValue
    /\ evictedZones' = evictedZones \cup Emptied(zoneToGroups, monitorID)
    /\ UNCHANGED nextID

UnsubscribeLock(c) ==
    /\ Running
    /\ caller[c].pc = "uns_lock"
    /\ LockFree
    /\ UnsubscribeSection(caller[c].monitorID)
    /\ mutex' = c
    /\ caller' = [caller EXCEPT ![c].pc = "uns_unlock"]
    /\ effects' = <<>>
    /\ UNCHANGED <<now, bus, sweep, handedOut, crashed>>

UnsubscribeUnlock(c) ==
    /\ Running
    /\ caller[c].pc = "uns_unlock"
    /\ mutex' = UnsubscribeReleased(c)
    /\ written' = {}
    /\ effects' = <<>>
    /\ caller' = [caller EXCEPT ![c] = IdleCaller]
    /\ UNCHANGED <<tables, now, bus, sweep, observed, crashed>>

(* --------------- sensorAttrChanged / zoneLevelChanged ----------------- *)

Index(kind) == IF kind = "sensor" THEN sensorToGroups ELSE zoneToGroups
Values(kind) == IF kind = "sensor" THEN sensorValues ELSE zoneValues

\* A value-change handler that never finds the value unchanged.
AlwaysChanged(kind, currentVal, val) == FALSE

\* The test for "no change": currentVal.Value == attr.Value for a sensor,
\* currentVal == val for a zone.
NoChange(kind, currentVal, val) ==
    IF kind = "sensor" THEN currentVal.Value = val.Value ELSE currentVal = val

\* What the local `groups` of the fan-out loop holds: the inner map object
\* taken from the index by the first section.  Once the index no longer holds
\* that object under the key, the object is an orphan, emptied before it was
\* dropped.
RefContent(kind, id, ref) ==
    IF id \in DOMAIN Index(kind) /\ Index(kind)[id].ref = ref
    THEN Index(kind)[id].ids ELSE {}

\* A handler that goes on to its cache test with a value for an entity that
\* is not in the reverse index.
NotDiscarded(kind, id, val) ==
    [IdleBus EXCEPT !.pc = "chk_cache", !.kind = kind, !.id = id, !.val = val]

\* `if !ok { return }` after the lookup: the handler is done with the value.
Discarded(kind, id, val) == IdleBus

\* The return of sensorAttrChanged / zoneLevelChanged at `if !ok`: the entity
\* is not monitored.
Ignored(kind, id) == Return("valueChanged", id, {}, FALSE)

\* The first section of sensorAttrChanged / zoneLevelChanged, for one value
\* taken off the bus: the reverse-index lookup under RLock.  (dup: the same
\* value for the same entity was the last one taken off the bus, it was found
\* monitored, and no Unsubscribe or InvalidateValues section ran since.)
ValueChanged(kind, id, val) ==
    /\ Running
    /\ bus.pc = "idle"
    /\ LockFree
    /\ IF id \in DOMAIN Index(kind)
       THEN /\ bus' = [IdleBus EXCEPT
                        !.pc = "chk_cache", !.kind = kind, !.id = id, !.val = val,
                        !.ref = Index(kind)[id].ref,
                        !.dup = (last = [kind |-> kind, id |-> id, val |-> val])]
            /\ last' = [kind |-> kind, id |-> id, val |-> val]
            /\ effects' = <<>>
       ELSE /\ bus' = Discarded(kind, id, val)
            /\ last' = NoValue
            /\ effects' = <<Ignored(kind, id)>>
    /\ evictedZones' = IF kind = "zone" THEN evictedZones \ {id} ELSE evictedZones
    /\ UNCHANGED <<tables, mutex, written, now, caller, sweep, handedOut, crashed>>

\* StartConsuming: *SensorAttrChanged, and each entry of *SensorsReporting.
sensorAttrChanged(sensorID, attr) == ValueChanged("sensor", sensorID, attr)
\* StartConsuming: *ZoneLevelChanged, and each entry of *ZonesReporting.
zoneLevelChanged(zoneID, val) == ValueChanged("zone", zoneID, val)

\* The second section: the cached value under RLock, and the return on no change.
BusCheckCache ==
    /\ Running
    /\ bus.pc = "chk_cache"
    /\ LockFree
    /\ bus' = IF /\ bus.id \in DOMAIN Values(bus.kind)
                 /\ NoChange(bus.kind, Values(bus.kind)[bus.id], bus.val)
              THEN IdleBus
              ELSE [bus EXCEPT !.pc = "write", !.dup = FALSE]
    /\ effects' = <<>>
    /\ UNCHANGED <<tables, mutex, written, now, caller, sweep, observed, crashed>>

\* The third section, from Lock to Unlock: the cache write.  The fan-out loop
\* then starts on the inner map taken by the first section.
BusWrite ==
    /\ Running
    /\ bus.pc = "write"
    /\ LockFree
    /\ IF bus.kind = "sensor"
       THEN /\ sensorValues' = Store(sensorValues, bus.id, bus.val)
            /\ UNCHANGED zoneValues
       ELSE /\ zoneValues' = Store(zoneValues, bus.id, bus.val)
            /\ UNCHANGED sensorValues
    /\ bus' = [bus EXCEPT !.pc = "range", !.seen = {},
                          !.start = RefContent(bus.kind, bus.id, bus.ref)]
    /\ effects' = <<>>
    /\ UNCHANGED <<groups, nextID, sensorToGroups, zoneToGroups, mutex, written, now,
                   caller, sweep, observed, crashed>>

\* `for groupID := range groups`, without the lock, on a map that Subscribe and
\* Unsubscribe write under it: an entry not yet produced and since removed is
\* not produced, an entry added since the loop began may be produced or not,
\* and a step that runs while a section is writing this very map may end the
\* process with Go's "concurrent map iteration and map write".
BusRange ==
    /\ Running
    /\ bus.pc = "range"
    /\ LET content == RefContent(bus.kind, bus.id, bus.ref)
       IN \/ /\ \E groupID \in content \ bus.seen :
                   bus' = [bus EXCEPT !.pc = "lookup", !.groupID = groupID,
                                      !.seen = @ \cup {groupID}]
             /\ UNCHANGED crashed
          \/ /\ (content \cap bus.start) \subseteq bus.seen
             /\ bus' = IdleBus
             /\ UNCHANGED crashed
          \/ /\ <<bus.kind, bus.id, bus.ref>> \in written
             /\ crashed' = "concurrent map iteration and map write"
             /\ UNCHANGED bus
    /\ effects' = <<>>
    /\ UNCHANGED <<tables, mutex, written, now, caller, sweep, observed>>

\* The loop body's section: group := m.groups[groupID] under RLock.
BusLookup ==
    /\ Running
    /\ bus.pc = "lookup"
    /\ LockFree
    /\ bus' = [bus EXCEPT !.pc = "update",
                          !.nilGroup = bus.groupID \notin DOMAIN groups]
    /\ effects' = <<>>
    /\ UNCHANGED <<tables, mutex, written, now, caller, sweep, observed, crashed>>

\* The single-entity ChangeBatch of the loop body.
FanOutBatch(kind, groupID, id, val) ==
    [MonitorID |-> groupID,
     Sensors |-> IF kind = "sensor" THEN [x \in {id} |-> val] ELSE EmptyMap,
     Zones |-> IF kind = "zone" THEN [x \in {id} |-> val] ELSE EmptyMap]

\* group.Handler.Update(cb): through a nil group it is a nil dereference.
BusUpdate ==
    /\ Running
    /\ bus.pc = "update"
    /\ IF bus.nilGroup
       THEN /\ crashed' = "nil pointer dereference"
            /\ effects' = <<>>
            /\ UNCHANGED bus
       ELSE /\ LET cb == FanOutBatch(bus.kind, bus.groupID, bus.id, bus.val)
               IN /\ effects' = <<UpdateCall(bus.groupID, cb)>>
                  /\ bus' = [bus EXCEPT !.pc = "range", !.groupID = "",
                                        !.updated = @ \cup {bus.groupID}]
            /\ UNCHANGED crashed
    /\ UNCHANGED <<tables, mutex, written, now, caller, sweep, observed>>

(* --------------------------- handleTimeouts --------------------------- *)

\* The end of time.Sleep (the start of the goroutine, the first time) and
\* `now := time.Now()`.
SweepWake ==
    /\ Running
    /\ sweep.pc = "sleep"
    /\ now >= sweep.wakeAt
    /\ sweep' = [sweep EXCEPT !.pc = "scan", !.now = now]
    /\ effects' = <<>>
    /\ UNCHANGED <<tables, mutex, written, now, caller, bus, observed, crashed>>

\* The groups whose deadline is Before(t).
ExpiredAt(t) == {id \in DOMAIN groups : groups[id].timeoutAbsolute < t}

\* The sweep asleep, from now for SweepInterval seconds (the clock stops at
\* MaxTime: a later wake-up is written as MaxTime + 1).
Asleep ==
    [IdleSweep EXCEPT !.wakeAt = IF now + SweepInterval > MaxTime
                                  THEN MaxTime + 1 ELSE now + SweepInterval]

\* The scan under RLock; with nothing expired the loop goes back to sleep.
SweepScan ==
    /\ Running
    /\ sweep.pc = "scan"
    /\ LockFree
    /\ sweep' = IF ExpiredAt(sweep.now) = {}
                THEN Asleep
                ELSE [sweep EXCEPT !.pc = "loop", !.expired = ExpiredAt(sweep.now)]
    /\ effects' = <<>>
    /\ UNCHANGED <<tables, mutex, written, now, caller, bus, observed, crashed>>

\* The next expired group, in the order the map gave them, and the unlocked
\* read that opens m.Unsubscribe(group.id).
SweepUnsubscribe ==
    /\ Running
    /\ sweep.pc = "loop"
    /\ \/ /\ \E id \in sweep.expired : \E ok \in RacyGroupsRead(id) :
               sweep' = [sweep EXCEPT !.cur = id,
                                      !.pc = IF ok THEN "uns_lock" ELSE "expired"]
          /\ UNCHANGED crashed
       \/ /\ SectionWritesGroups
          /\ crashed' = "concurrent map read and map write"
          /\ UNCHANGED sweep
    /\ effects' = <<>>
    /\ UNCHANGED <<tables, mutex, written, now, caller, bus, observed>>

SweepUnsubscribeLock ==
    /\ Running
    /\ sweep.pc = "uns_lock"
    /\ LockFree
    /\ UnsubscribeSection(sweep.cur)
    /\ mutex' = SweepProc
    /\ sweep' = [sweep EXCEPT !.pc = "uns_unlock"]
    /\ effects' = <<>>
    /\ UNCHANGED <<now, caller, bus, handedOut, crashed>>

SweepUnsubscribeUnlock ==
    /\ Running
    /\ sweep.pc = "uns_unlock"
    /\ mutex' = UnsubscribeReleased(SweepProc)
    /\ written' = {}
    /\ sweep' = [sweep EXCEPT !.pc = "expired"]
    /\ effects' = <<>>
    /\ UNCHANGED <<tables, now, caller, bus, observed, crashed>>

\* group.Handler.Expired(group.id), then the next expired group or the sleep.
SweepExpired ==
    /\ Running
    /\ sweep.pc = "expired"
    /\ effects' = <<ExpiredCall(sweep.cur)>>
    /\ sweep' = IF sweep.expired \ {sweep.cur} = {}
                THEN Asleep
                ELSE [sweep EXCEPT !.pc = "loop", !.expired = @ \ {sweep.cur},
                                   !.cur = ""]
    /\ UNCHANGED <<tables, mutex, written, now, caller, bus, observed, crashed>>

(* ------------------------------- time --------------------------------- *)

\* A second passes.  Only the sweep looks at the deadlines that the clock is
\* read for, so the clock stands still in a run that does not schedule it.
Tick ==
    /\ Running
    /\ sweep.pc # "off"
    /\ now < MaxTime
    /\ now' = now + 1
    /\ effects' = <<>>
    /\ UNCHANGED <<tables, mutex, written, caller, bus, sweep, observed, crashed>>

(* --------------------------- specification ---------------------------- *)

Next ==
    \/ \E c \in Callers :
          \/ \E g \in GroupArgs, refresh \in BOOLEAN : Subscribe(c, g, refresh)
          \/ SubscribeUnlock(c)
          \/ SubscribeRefresh(c)
          \/ \E id \in MonitorIDs, force \in BOOLEAN : Refresh(c, id, force)
          \/ RefreshEmit(c)
          \/ \E id \in MonitorIDs : InvalidateValues(c, id)
          \/ InvalidateSection(c)
          \/ \E id \in MonitorIDs : Group(c, id)
          \/ \E id \in MonitorIDs : SubscribeRenew(c, id)
          \/ RenewSection(c)
          \/ \E id \in MonitorIDs : Unsubscribe(c, id)
          \/ UnsubscribeLock(c)
          \/ UnsubscribeUnlock(c)
    \/ \E sensorID \in SensorIDs, attr \in SensorAttrs : sensorAttrChanged(sensorID, attr)
    \/ \E zoneID \in ZoneIDs, val \in Levels : zoneLevelChanged(zoneID, val)
    \/ BusCheckCache
    \/ BusWrite
    \/ BusRange
    \/ BusLookup
    \/ BusUpdate
    \/ SweepWake
    \/ SweepScan
    \/ SweepUnsubscribe
    \/ SweepUnsubscribeLock
    \/ SweepUnsubscribeUnlock
    \/ SweepExpired
    \/ Tick

Spec == Init /\ [][Next]_vars
(* ------------------------------ properties ---------------------------- *)

\* The effects of one step that are calls of the given sort.
CallsIn(es, call) == {es[i] : i \in {j \in DOMAIN es : es[j].call = call}}
\* The returns of op among the effects of one step.
ReturnsIn(es, op) == {e \in CallsIn(es, "Return") : e.op = op}
\* How many effects of one step satisfy Test.
CountIn(es, Test(_)) == Cardinality({i \in DOMAIN es : Test(es[i])})

LiveIDs == DOMAIN groups
HandedOutIDs == {handedOut[i].id : i \in DOMAIN handedOut}

\* C1: Subscribe with a group that lists a zone or a sensor never returns an
\* error and returns an ID it has assigned; the IDs assigned are strictly
\* increasing as numbers and pairwise different as strings, and every live
\* group carries an assigned ID, so that a new ID differs from every live one,
\* whatever Subscribe, Unsubscribe and expiry steps came before, overlapping
\* Subscribe calls included.
C1_IDsIncreaseAndNeverRepeat ==
    /\ [](/\ \A i, j \in DOMAIN handedOut :
                i < j => /\ handedOut[i].n < handedOut[j].n
                         /\ handedOut[i].id # handedOut[j].id
          /\ LiveIDs \subseteq HandedOutIDs)
    /\ [][/\ \A e \in ReturnsIn(effects', "Subscribe") :
                e.ids # {} => e.ok /\ e.id \in HandedOutIDs'
          /\ Len(handedOut') > Len(handedOut) =>
                handedOut'[Len(handedOut')].id \notin LiveIDs]_vars

\* Two Subscribe calls overlap: one is inside its locked section while the
\* other, already given its ID, has not returned yet.
C1_Witness ==
    /\ Len(handedOut) = 2
    /\ \E c, d \in Callers :
          /\ caller[c].pc = "sub_unlock"
          /\ caller[d].pc = "ref_read" /\ caller[d].op = "Subscribe"

\* C2: Subscribe with a group that lists no zone and no sensor returns an
\* error and no ID, in a step that leaves the group table, both reverse
\* indices, both caches and the counter as they were and makes no delegate call
\* and no publish; no group without a zone or sensor is ever in the table.
C2_EmptyGroupRejected ==
    /\ [](\A id \in LiveIDs : groups[id].Zones \cup groups[id].Sensors # {})
    /\ [][\A e \in ReturnsIn(effects', "Subscribe") :
             e.ids = {} => /\ ~e.ok
                           /\ e.id = ""
                           /\ Len(effects') = 1
                           /\ UNCHANGED tables]_vars

\* An empty group has just been refused by a Monitor that holds a group.
C2_Witness ==
    /\ effects = <<Return("Subscribe", "", {}, FALSE)>>
    /\ LiveIDs # {}

\* C3: the Refresh that Subscribe(g, true) runs, when it finds the group,
\* takes into its batch exactly the IDs of the group that have a cached value,
\* with that value, and into each report exactly the IDs of that kind without
\* one; Subscribe then makes one Update call with that batch if it is not
\* empty and none otherwise, and publishes one request for each kind whose
\* report is not empty and none for the other, before it returns.
C3_RefreshSplitsCachedFromUncached ==
    [][\A c \in Callers :
         /\ (caller[c].pc = "ref_read" /\ caller'[c].pc = "ref_emit") =>
               LET g == groups[caller[c].monitorID]
                   r == caller'[c]
               IN /\ DOMAIN r.changeBatch.Zones = g.Zones \cap DOMAIN zoneValues
                  /\ \A z \in DOMAIN r.changeBatch.Zones :
                        r.changeBatch.Zones[z] = zoneValues[z]
                  /\ DOMAIN r.changeBatch.Sensors = g.Sensors \cap DOMAIN sensorValues
                  /\ \A s \in DOMAIN r.changeBatch.Sensors :
                        r.changeBatch.Sensors[s] = sensorValues[s]
                  /\ r.changeBatch.MonitorID = caller[c].monitorID
                  /\ r.zoneReport = g.Zones \ DOMAIN zoneValues
                  /\ r.sensorReport = g.Sensors \ DOMAIN sensorValues
         /\ (caller[c].pc = "ref_emit" /\ caller[c].op = "Subscribe"
               /\ caller'[c].pc = "idle") =>
               LET r == caller[c]
                   cached == DOMAIN r.changeBatch.Zones \cup DOMAIN r.changeBatch.Sensors
                   IsUpdate(e) == e.call = "Update"
                   IsSensorRequest(e) == e.call = "Enqueue" /\ e.op = "sensor"
                   IsZoneRequest(e) == e.call = "Enqueue" /\ e.op = "zone"
               IN /\ CountIn(effects', IsUpdate) = IF cached = {} THEN 0 ELSE 1
                  /\ \A e \in CallsIn(effects', "Update") :
                        e.id = r.monitorID /\ e.batch = r.changeBatch
                  /\ CountIn(effects', IsSensorRequest)
                        = IF r.sensorReport = {} THEN 0 ELSE 1
                  /\ CountIn(effects', IsZoneRequest)
                        = IF r.zoneReport = {} THEN 0 ELSE 1
                  /\ \A e \in CallsIn(effects', "Enqueue") :
                        e.ids = IF e.op = "sensor" THEN r.sensorReport ELSE r.zoneReport
                  /\ CountIn(effects', LAMBDA e : e.call = "Return") = 1]_vars

\* A Subscribe(g, true) has just returned after one Update for the cached
\* zone and one request for the uncached sensor.
C3_Witness ==
    /\ Len(effects) = 3
    /\ effects[1].call = "Update" /\ DOMAIN effects[1].batch.Zones = {"z1"}
    /\ DOMAIN effects[1].batch.Sensors = {}
    /\ effects[2] = ReportRequest("sensor", {"s1"})
    /\ effects[3].call = "Return" /\ effects[3].op = "Subscribe" /\ effects[3].ok

\* The value the bus goroutine is handling is the one `last` holds: no
\* Unsubscribe or InvalidateValues section ran since it was taken off the bus.
Undisturbed == last = [kind |-> bus.kind, id |-> bus.id, val |-> bus.val]

\* C4: with no Unsubscribe or InvalidateValues section in between, (a) a value
\* delivered again right after the same value for the same entity ends at the
\* cache test, with no Update call and both caches as they were; (b) a
\* delivery that writes the cache calls Update for a group at most once, only
\* for groups listed for the entity, with the entity and value delivered, and
\* the loop does not end before every group listed when it began has had its
\* Update.
C4_SecondDeliveryDeduplicated ==
    [][/\ (bus.pc = "chk_cache" /\ bus.dup /\ Undisturbed /\ bus' # bus) =>
             /\ bus'.pc = "idle"
             /\ effects' = <<>>
             /\ UNCHANGED <<sensorValues, zoneValues>>
       /\ (bus.pc = "update" /\ bus'.pc = "range" /\ Undisturbed) =>
             /\ bus.groupID \notin bus.updated
             /\ bus.groupID \in Index(bus.kind)[bus.id].ids
             /\ effects' = <<UpdateCall(bus.groupID,
                               FanOutBatch(bus.kind, bus.groupID, bus.id, bus.val))>>
       /\ (bus.pc = "range" /\ bus'.pc = "idle" /\ Undisturbed) =>
             /\ bus.start # {}
             /\ bus.start \subseteq bus.updated
             /\ Values(bus.kind)[bus.id] = bus.val]_vars

\* The same value has arrived a second time in a row for an entity that two
\* groups listen to, the first delivery having been handled.
C4_Witness ==
    /\ bus.pc = "chk_cache" /\ bus.dup /\ Undisturbed
    /\ Cardinality(Index(bus.kind)[bus.id].ids) = 2
    /\ bus.id \in DOMAIN Values(bus.kind)

\* The reads of Refresh that may answer from the cache: the one Subscribe(g,
\* true) runs, and Refresh(monitorID, false).
UnforcedRefreshRead(c) ==
    /\ caller[c].pc \in {"idle", "ref_read"}
    /\ caller'[c].pc = "ref_emit"
    /\ caller'[c].op = "Subscribe" \/ ~caller'[c].flag

\* C5: a Refresh without force, for a group on a zone whose last group was
\* unsubscribed and for which no level has come off the bus since, puts the
\* zone in its zone report and not in its batch.
C5_EvictedZoneIsRequested ==
    [][\A c \in Callers :
         UnforcedRefreshRead(c) =>
            \A z \in groups[caller'[c].monitorID].Zones \cap evictedZones :
               /\ z \in caller'[c].zoneReport
               /\ z \notin DOMAIN caller'[c].changeBatch.Zones]_vars

\* C6: Unsubscribe never ends the process, also when its first statement runs
\* while another Unsubscribe is inside its locked section.
C6_UnsubscribeNeverFails ==
    ~(/\ crashed = "concurrent map read and map write"
      /\ \E id \in MonitorIDs : HolderDeleting(id))

\* C7: when Expired(id) is called for a group that was never renewed, the
\* group is no longer in the table, so that Group(id) reports not-found from
\* then on.
C7_ExpiredGroupIsGone ==
    [][\A e \in CallsIn(effects', "Expired") :
         ~(e.id \in DOMAIN groups' /\ groups'[e.id].renewal = "none")]_vars

\* C8: the sweep does not remove a group whose last renewal came before its
\* deadline had passed while the deadline set by that renewal is still ahead.
C8_RenewedGroupSurvivesSweep ==
    [][(/\ sweep.pc = "uns_lock" /\ sweep'.pc = "uns_unlock"
        /\ sweep.cur \in DOMAIN groups) =>
          ~(/\ groups[sweep.cur].renewal = "kept"
            /\ now < groups[sweep.cur].timeoutAbsolute)]_vars

\* C9: SubscribeRenew(id) returns success only if the group is in the table
\* when its locked section runs, a removal that overlaps the call included.
C9_RenewSucceedsOnlyIfLive ==
    [][\A e \in ReturnsIn(effects', "SubscribeRenew") :
         e.ok => e.id \in DOMAIN groups]_vars

\* C10: a sensor or zone ID has a cached value only if a group in the table
\* lists it.
C10_CachedOnlyIfReferenced ==
    /\ \A s \in DOMAIN sensorValues : \E id \in DOMAIN groups : s \in groups[id].Sensors
    /\ \A z \in DOMAIN zoneValues : \E id \in DOMAIN groups : z \in groups[id].Zones

(* ------------------ indices, invalidation, locking -------------------- *)

\* The entities of one kind that a group lists.
Listed(kind, group) == IF kind = "sensor" THEN group.Sensors ELSE group.Zones
\* The live groups that list entity e.
Listing(kind, e) == {id \in DOMAIN groups : e \in Listed(kind, groups[id])}
Kinds == {"sensor", "zone"}
EntityIDs(kind) == IF kind = "sensor" THEN SensorIDs ELSE ZoneIDs

\* C11: in every state a sensor (zone) ID is a key of sensorToGroups
\* (zoneToGroups) exactly if a live group lists it, and the set under the key
\* is exactly the set of the IDs of the live groups that list it: never empty,
\* never with the ID of a removed group.
C11_IndexMirrorsGroups ==
    \A kind \in Kinds :
       /\ DOMAIN Index(kind) \subseteq EntityIDs(kind)
       /\ \A e \in EntityIDs(kind) :
             /\ e \in DOMAIN Index(kind) <=> Listing(kind, e) # {}
             /\ e \in DOMAIN Index(kind) => Index(kind)[e].ids = Listing(kind, e)

\* An Unsubscribe has just run its locked section on a group, and a zone is
\* still indexed for the group that is left.
C11_Witness ==
    /\ \E c \in Callers : /\ caller[c].pc = "uns_unlock"
                          /\ caller[c].monitorID \notin LiveIDs
                          /\ caller[c].monitorID \in HandedOutIDs
    /\ LiveIDs # {}
    /\ zoneToGroups # EmptyMap

\* C12: InvalidateValues goes on to its locked section only for an ID it found
\* in the table, having changed nothing; the section leaves the group table
\* (the deadlines with it), the counter and both reverse indices as they were,
\* and removes from the caches the listed IDs and nothing else; if the group
\* is in the table, a Refresh(id, false) reading the tables next would request
\* every ID of the group and answer none from the cache.
C12_InvalidateForcesRefetch ==
    [][\A c \in Callers :
         /\ (caller[c].pc = "idle" /\ caller'[c].pc = "inv_lock") =>
               /\ caller'[c].monitorID \in DOMAIN groups
               /\ UNCHANGED tables
         /\ (caller[c].pc = "inv_lock" /\ caller'[c].pc = "idle") =>
               LET id == caller[c].monitorID
               IN /\ UNCHANGED <<groups, nextID, sensorToGroups, zoneToGroups>>
                  /\ DOMAIN sensorValues' = DOMAIN sensorValues \ caller[c].sensors
                  /\ DOMAIN zoneValues' = DOMAIN zoneValues \ caller[c].zones
                  /\ \A s \in DOMAIN sensorValues' : sensorValues'[s] = sensorValues[s]
                  /\ \A z \in DOMAIN zoneValues' : zoneValues'[z] = zoneValues[z]
                  /\ id \in DOMAIN groups =>
                        LET g == groups[id]
                        IN /\ RefreshReport(g.Zones, zoneValues', FALSE) = g.Zones
                           /\ RefreshReport(g.Sensors, sensorValues', FALSE) = g.Sensors
                           /\ RefreshCached(g.Zones, zoneValues', FALSE) = {}
                           /\ RefreshCached(g.Sensors, sensorValues', FALSE) = {}]_vars

\* InvalidateValues has found its group, which lists a zone and a sensor that
\* both have a cached value, and is about to run its locked section.
C12_Witness ==
    \E c \in Callers :
       /\ caller[c].pc = "inv_lock"
       /\ caller[c].monitorID \in DOMAIN groups
       /\ caller[c].zones # {} /\ caller[c].zones \subseteq DOMAIN zoneValues
       /\ caller[c].sensors # {} /\ caller[c].sensors \subseteq DOMAIN sensorValues

\* The delegate calls and the publishes among the effects of one step.
Outbound(es) == CallsIn(es, "Update") \cup CallsIn(es, "Expired") \cup CallsIn(es, "Enqueue")

\* C13: a step that calls Update or Expired on a delegate or publishes a
\* report request is a step of Refresh after its RUnlock, of the fan-out loop
\* after the RUnlock of its body, or of the sweep after its Unsubscribe; the
\* context that takes it does not hold the write lock, and the step is no part
\* of a locked section: it leaves the five tables and the mutex as they were.
C13_CallsMadeOutsideLock ==
    [][Outbound(effects') # {} =>
          /\ UNCHANGED <<tables, mutex, written>>
          /\ \/ \E c \in Callers : /\ caller[c].pc = "ref_emit"
                                   /\ caller'[c].pc = "idle"
                                   /\ mutex # c
                                   /\ Outbound(effects') \subseteq
                                         CallsIn(effects', "Update")
                                            \cup CallsIn(effects', "Enqueue")
             \/ /\ bus.pc = "update" /\ bus'.pc = "range"
                /\ mutex # BusProc
                /\ Outbound(effects') = CallsIn(effects', "Update")
             \/ /\ sweep.pc = "expired" /\ sweep' # sweep
                /\ mutex # SweepProc
                /\ Outbound(effects') = CallsIn(effects', "Expired")]_vars

\* A delegate has just been called while another context holds the write lock.
C13_Witness ==
    /\ CallsIn(effects, "Update") \cup CallsIn(effects, "Expired") # {}
    /\ mutex # NoProc

(* --------------------- fan-out, expiry, staleness --------------------- *)

\* C14: no context reads or iterates one of the Monitor's maps while another
\* context, holding the write lock, is writing that map: the Go runtime never
\* ends the process with a concurrent map access.
C14_TablesAccessedUnderLock ==
    crashed \notin {"concurrent map read and map write",
                    "concurrent map iteration and map write"}

\* C15: a value that is written to the cache is written as delivered, and
\* every live group listing its entity then is in the map the fan-out loop
\* goes through; each Update of the loop goes to a group not yet updated, with
\* that group's ID and exactly the entity and value delivered; the loop never
\* stops on a missing group, and it ends only when every group it started
\* with that still lists the entity has had its Update.
C15_EveryListenerUpdatedOnce ==
    [][/\ (bus.pc = "write" /\ bus'.pc = "range") =>
             /\ IF bus.kind = "sensor" THEN sensorValues'[bus.id] = bus.val
                                       ELSE zoneValues'[bus.id] = bus.val
             /\ Listing(bus.kind, bus.id) \subseteq bus'.start
       /\ (bus.pc = "update" /\ bus'.pc = "range") =>
             /\ bus.groupID \notin bus.updated
             /\ effects' = <<UpdateCall(bus.groupID,
                               FanOutBatch(bus.kind, bus.groupID, bus.id, bus.val))>>
       /\ bus.pc = "update" => crashed' # "nil pointer dereference"
       /\ (bus.pc = "range" /\ bus'.pc = "idle") =>
             (bus.start \cap Listing(bus.kind, bus.id)) \subseteq bus.updated]_vars

\* C16: when the sweep calls Expired(id), the group id is in the group table
\* no longer, and in no set of either reverse index.
C16_UnsubscribedBeforeExpired ==
    [][\A e \in CallsIn(effects', "Expired") :
         /\ e.id \notin DOMAIN groups'
         /\ \A s \in DOMAIN sensorToGroups' : e.id \notin sensorToGroups'[s].ids
         /\ \A z \in DOMAIN zoneToGroups' : e.id \notin zoneToGroups'[z].ids]_vars

C18_FanOutNeverMeetsNilGroup == crashed # "nil pointer dereference"

\* C19: an Update with MonitorID id is called only while the group id is in
\* the group table or the Unsubscribe that removed it has not returned yet.
C19_NoUpdateAfterRemoval ==
    [][\A e \in CallsIn(effects', "Update") :
         e.id \in DOMAIN groups \/ HolderDeleting(e.id)]_vars

\* C20: a Refresh does not call Update with a cached value for an entity after
\* the fan-out loop in progress has called Update on the same group with a
\* different value for that entity.
C20_RefreshNeverDeliversOlderValue ==
    [][\A c \in Callers :
         (caller[c].pc = "ref_emit" /\ caller'[c].pc = "idle") =>
            LET b == caller[c].changeBatch
                answered == IF bus.kind = "sensor" THEN b.Sensors ELSE b.Zones
            IN ~(/\ bus.pc \in {"range", "lookup", "update"}
                 /\ b.MonitorID \in bus.updated
                 /\ bus.id \in DOMAIN answered
                 /\ answered[bus.id] # bus.val)]_vars

====
